---- MODULE Spec2Model ----
(***************************************************************************)
(* Model of the two command line tools of k8ev-kit:                        *)
(*   tools/set_fee_recipient.py    the fee-recipient setter                *)
(*   tools/gen_external_config.py  the external node config generator      *)
(* Python strings are TLA+ strings; TLC evaluates Len, SubSeq and \o on    *)
(* them, so prefixes, lengths and substrings are computed on the real      *)
(* characters.                                                             *)
(***************************************************************************)
EXTENDS Integers, Sequences, FiniteSets, TLC

VARIABLES
    \* ---- set_fee_recipient.py ----
    pc,          \* position of main(): the step that runs next
    argPubkey,   \* args.pubkey
    argAddr,     \* args.fee_recipient
    argVcUrl,    \* args.vc_url
    tokenFile,   \* the file args.token_file names: [kind, content]
    pubkey,      \* main's local pubkey (validated)
    addr,        \* main's local addr (validated)
    token,       \* main's local token
    sent,        \* the HTTP requests issued so far, in order
    response,    \* what requests.post gave: [kind, status, body]
    trace,       \* the steps main() has run, in order
    sOut,        \* lines written to stdout
    sErr,        \* lines written to stderr
    sExit,       \* process exit status, -1 while running
    sRaised,     \* the exception that escaped main(), "" if none
    \* ---- gen_external_config.py ----
    gpc,         \* position of main()/generate_config()
    quiet,       \* args.quiet
    helmList,    \* outcome of `helm list -o json`
    helmValues,  \* outcome of `helm get values -o json`
    svcList,     \* outcome of `kubectl get svc -l ... -o json`
    secretCmd,   \* outcome of `kubectl get secret <name>`
    values,      \* generate_config's local values
    ports,       \* [exec, beacon]: exec_port and beacon_port
    services,    \* [geth, beacon]: the service names found, None if not
    result,      \* what generate_config returned: [config, metadata]
    gOut,        \* what was written to stdout, one element per print
    gErr,        \* what was written to stderr, one element per print
    gExit,       \* process exit status, -1 while running
    gRaised      \* the exception that escaped main(), "" if none

setterVars == <<pc, argPubkey, argAddr, argVcUrl, tokenFile, pubkey, addr,
                token, sent, response, trace, sOut, sErr, sExit, sRaised>>
genVars == <<gpc, quiet, helmList, helmValues, svcList, secretCmd, values,
             ports, services, result, gOut, gErr, gExit, gRaised>>
vars == <<setterVars, genVars>>

-----------------------------------------------------------------------------
(* Bounds of the model *)

\* leading / trailing whitespace characters put around an input
MaxPad == 1
\* how far the length of an input's hex body departs from the required one
MaxDelta == 1
\* services in a listing
MaxSvcs == 2

(* Program constants *)

PUBKEY_LEN == 98
ADDR_LEN == 42
DEFAULT_EXEC_PORT == 8551
DEFAULT_BEACON_PORT == 5052

-----------------------------------------------------------------------------
(* Python str / bytes primitives *)

None == "<None>"

Char(s, i) == SubSeq(s, i, i)

HexDigits == {"0", "1", "2", "3", "4", "5", "6", "7", "8", "9",
              "a", "b", "c", "d", "e", "f", "A", "B", "C", "D", "E", "F"}

\* the characters both str.strip() and bytes.fromhex() treat as whitespace
Whitespace == {" ", "\t", "\n", "\r", "\f"}

RECURSIVE LStrip(_)
LStrip(s) ==
    IF Len(s) > 0 /\ Char(s, 1) \in Whitespace
    THEN LStrip(SubSeq(s, 2, Len(s)))
    ELSE s

RECURSIVE RStrip(_)
RStrip(s) ==
    IF Len(s) > 0 /\ Char(s, Len(s)) \in Whitespace
    THEN RStrip(SubSeq(s, 1, Len(s) - 1))
    ELSE s

\* str.strip()
Strip(s) == RStrip(LStrip(s))

\* str.startswith(p)
StartsWith(s, p) == Len(s) >= Len(p) /\ SubSeq(s, 1, Len(p)) = p

\* `sub in s`
Contains(s, sub) ==
    \E i \in 1..(Len(s) - Len(sub) + 1) : SubSeq(s, i, i + Len(sub) - 1) = sub

\* bytes.fromhex(s) from index i on: TRUE when it returns, FALSE when it
\* raises ValueError. Runs of whitespace are skipped between bytes; a byte
\* is two adjacent hex digits.
RECURSIVE FromHexFrom(_, _)
FromHexFrom(s, i) ==
    IF i > Len(s) THEN TRUE
    ELSE IF Char(s, i) \in Whitespace THEN FromHexFrom(s, i + 1)
    ELSE IF Char(s, i) \notin HexDigits THEN FALSE
    ELSE IF i + 1 > Len(s) THEN FALSE
    ELSE IF Char(s, i + 1) \notin HexDigits THEN FALSE
    ELSE FromHexFrom(s, i + 2)

FromHexOk(s) == FromHexFrom(s, 1)

\* str.rstrip('/')
RECURSIVE RStripSlash(_)
RStripSlash(s) ==
    IF Len(s) > 0 /\ Char(s, Len(s)) = "/"
    THEN RStripSlash(SubSeq(s, 1, Len(s) - 1))
    ELSE s

-----------------------------------------------------------------------------
(* set_fee_recipient.py *)

\* The result of a validator: ok with the value returned, or die(msg).
Accept(v) == [ok |-> TRUE, value |-> v, msg |-> ""]
Reject(m) == [ok |-> FALSE, value |-> "", msg |-> m]

validate_pubkey(p) ==
    LET s  == Strip(p)
        pk == IF ~StartsWith(s, "0x") THEN "0x" \o s ELSE s
    IN  IF ~(StartsWith(pk, "0x") /\ Len(pk) = PUBKEY_LEN)
        THEN Reject("pubkey must be 0x + 96 hex chars (48 bytes)")
        ELSE IF ~FromHexOk(SubSeq(pk, 3, Len(pk)))
        THEN Reject("pubkey is not valid hex")
        ELSE Accept(pk)

validate_eth_address(x) ==
    LET a == Strip(x)
    IN  IF ~(StartsWith(a, "0x") /\ Len(a) = ADDR_LEN)
        THEN Reject("fee recipient must be 0x + 40 hex chars")
        ELSE IF ~FromHexOk(SubSeq(a, 3, Len(a)))
        THEN Reject("fee recipient is not valid hex")
        ELSE Accept(a)

\* read_token on a file in state f: the token, die(msg), or an exception
\* that escapes. A file whose bytes are not UTF-8 makes f.read() raise
\* UnicodeDecodeError, which `except OSError` does not catch.
read_token(f) ==
    IF f.kind = "missing"
    THEN [outcome |-> "die", value |-> "", msg |-> "token file not found"]
    ELSE IF f.kind = "unreadable"
    THEN [outcome |-> "die", value |-> "", msg |-> "error reading token file"]
    ELSE IF f.kind = "undecodable"
    THEN [outcome |-> "raise", value |-> "", msg |-> "UnicodeDecodeError"]
    ELSE IF Strip(f.content) = ""
    THEN [outcome |-> "die", value |-> "", msg |-> "token file is empty"]
    ELSE [outcome |-> "ok", value |-> Strip(f.content), msg |-> ""]

\* The request post_fee_recipient builds.
Request(vc_url, tok, pk, a) ==
    [url  |-> RStripSlash(vc_url) \o "/eth/v1/validator/" \o pk \o "/feerecipient",
     auth |-> "Bearer " \o tok,
     ethaddress |-> a]

\* die(msg)
SetterDie(msg) ==
    /\ sErr' = Append(sErr, "ERROR: " \o msg)
    /\ sExit' = 1
    /\ pc' = "done"

\* What requests.post can give: a response with a status code and a body,
\* requests.Timeout, or another requests.RequestException.
HttpStatuses == {200, 202, 204, 400, 401, 404, 500}
HttpBodies == {"", "  ", "boom"}
HttpOutcomes ==
    {[kind |-> "response", status |-> st, body |-> b] :
        st \in HttpStatuses, b \in HttpBodies}
    \cup {[kind |-> "Timeout", status |-> 0, body |-> ""],
          [kind |-> "RequestException", status |-> 0, body |-> ""]}

NoResponse == [kind |-> "none", status |-> 0, body |-> ""]

\* main(): pubkey = validate_pubkey(args.pubkey)
ValidatePubkey ==
    /\ pc = "validate_pubkey"
    /\ trace' = Append(trace, "validate_pubkey")
    /\ LET r == validate_pubkey(argPubkey)
       IN  IF r.ok
           THEN /\ pubkey' = r.value
                /\ pc' = "validate_address"
                /\ UNCHANGED <<sErr, sExit>>
           ELSE /\ SetterDie(r.msg)
                /\ UNCHANGED pubkey
    /\ UNCHANGED <<argPubkey, argAddr, argVcUrl, tokenFile, addr, token, sent,
                   response, sOut, sRaised, genVars>>

\* main(): addr = validate_eth_address(args.fee_recipient)
ValidateAddress ==
    /\ pc = "validate_address"
    /\ trace' = Append(trace, "validate_address")
    /\ LET r == validate_eth_address(argAddr)
       IN  IF r.ok
           THEN /\ addr' = r.value
                /\ pc' = "read_token"
                /\ UNCHANGED <<sErr, sExit>>
           ELSE /\ SetterDie(r.msg)
                /\ UNCHANGED addr
    /\ UNCHANGED <<argPubkey, argAddr, argVcUrl, tokenFile, pubkey, token, sent,
                   response, sOut, sRaised, genVars>>

\* main(): token = read_token(args.token_file)
ReadToken ==
    /\ pc = "read_token"
    /\ trace' = Append(trace, "read_token")
    /\ LET r == read_token(tokenFile)
       IN  IF r.outcome = "ok"
           THEN /\ token' = r.value
                /\ pc' = "post"
                /\ UNCHANGED <<sErr, sExit, sRaised>>
           ELSE IF r.outcome = "die"
           THEN /\ SetterDie(r.msg)
                /\ UNCHANGED <<token, sRaised>>
           ELSE \* uncaught exception: traceback on stderr, exit status 1
                /\ sRaised' = r.msg
                /\ sErr' = Append(sErr, "Traceback: " \o r.msg)
                /\ sExit' = 1
                /\ pc' = "done"
                /\ UNCHANGED token
    /\ UNCHANGED <<argPubkey, argAddr, argVcUrl, tokenFile, pubkey, addr, sent,
                   response, sOut, genVars>>

\* post_fee_recipient with a retry after a timeout (a mutation of the code)
PostFeeRecipientRetrying ==
    /\ pc = "post"
    /\ trace' = Append(trace, "post")
    /\ \E o \in HttpOutcomes :
        /\ response' = o
        /\ IF o.kind = "response"
           THEN /\ sent' = Append(sent, Request(argVcUrl, token, pubkey, addr))
                /\ pc' = "interpret"
                /\ UNCHANGED <<sErr, sExit>>
           ELSE /\ sent' = sent \o <<Request(argVcUrl, token, pubkey, addr),
                                     Request(argVcUrl, token, pubkey, addr)>>
                /\ SetterDie("request error")
    /\ UNCHANGED <<argPubkey, argAddr, argVcUrl, tokenFile, pubkey, addr, token,
                   sOut, sRaised, genVars>>

\* main(): status, body = post_fee_recipient(args.vc_url, token, pubkey, addr)
\* One requests.post; Timeout and RequestException are caught and die().
PostFeeRecipient ==
    /\ pc = "post"
    /\ trace' = Append(trace, "post")
    /\ sent' = Append(sent, Request(argVcUrl, token, pubkey, addr))
    /\ \E o \in HttpOutcomes :
        /\ response' = o
        /\ IF o.kind = "response"
           THEN /\ pc' = "interpret"
                /\ UNCHANGED <<sErr, sExit>>
           ELSE IF o.kind = "Timeout"
           THEN SetterDie("request timed out after 10s (treating as permanent error)")
           ELSE SetterDie("request error")
    /\ UNCHANGED <<argPubkey, argAddr, argVcUrl, tokenFile, pubkey, addr, token,
                   sOut, sRaised, genVars>>

\* main()'s mapping of the status code, with any 2xx taken as success
\* (a mutation of the code)
StatusOutcomeAny2xx(status, body) ==
    IF status >= 200 /\ status < 300 THEN [exit |-> 0, msg |-> "OK"]
    ELSE [exit |-> 1, msg |-> "unexpected status"]

\* main()'s mapping of the status code to the exit status and message
StatusOutcome(status, body) ==
    IF status = 202 THEN [exit |-> 0, msg |-> "OK"]
    ELSE IF status = 401
    THEN [exit |-> 1, msg |-> "unauthorized: check token and VC HTTP settings/URL"]
    ELSE IF status = 404
    THEN [exit |-> 1, msg |-> "validator not found (VC has not loaded this pubkey?)"]
    ELSE [exit |-> 1,
          msg |-> "unexpected status " \o ToString(status) \o ": "
                  \o (IF Strip(body) = "" THEN "<no body>" ELSE Strip(body))]

\* main(): the branches on status
Interpret ==
    /\ pc = "interpret"
    /\ trace' = Append(trace, "interpret")
    /\ LET o == StatusOutcome(response.status, response.body)
       IN  IF o.exit = 0
           THEN /\ sOut' = Append(sOut, "OK: fee recipient set to " \o addr
                                         \o " for " \o pubkey)
                /\ sExit' = 0
                /\ pc' = "done"
                /\ UNCHANGED sErr
           ELSE /\ SetterDie(o.msg)
                /\ UNCHANGED sOut
    /\ UNCHANGED <<argPubkey, argAddr, argVcUrl, tokenFile, pubkey, addr, token,
                   sent, response, sRaised, genVars>>

NextSetter ==
    \/ ValidatePubkey
    \/ ValidateAddress
    \/ ReadToken
    \/ PostFeeRecipient
    \/ Interpret

-----------------------------------------------------------------------------
(* Inputs of the setter *)

RECURSIVE Rep(_, _)
Rep(c, n) == IF n <= 0 THEN "" ELSE c \o Rep(c, n - 1)

\* characters an input may hold: hex digits, non-hex letters, whitespace
Alphabet == {"a", "F", "0", "g", "x", " "}
Prefixes == {"", "0x", "0X"}

\* n characters, all "a" but for the two at p and p+1
Body(n, p, c, d) == Rep("a", p - 1) \o c \o d \o Rep("a", n - p - 1)

\* The strings tried against a validator that requires total length len:
\* optional padding, a prefix, and a body of about len - 2 characters of
\* which two adjacent ones range over the alphabet.
Inputs(len) ==
    UNION {
        { Rep(" ", l) \o pre \o Body(n, p, c, d) \o Rep(" ", t) :
            p \in {1, 2, n - 1}, c \in Alphabet, d \in Alphabet }
        : <<l, t, pre, n>> \in (0..MaxPad) \X (0..MaxPad) \X Prefixes
                              \X ((len - 2 - MaxDelta)..(len - 2 + MaxDelta)) }

GoodPubkey == "0x" \o Rep("a", PUBKEY_LEN - 2)
GoodAddr == "0x" \o Rep("a", ADDR_LEN - 2)
GoodTokenFile == [kind |-> "file", content |-> "tok"]

TokenFiles ==
    {[kind |-> k, content |-> ""] : k \in {"missing", "unreadable", "undecodable"}}
    \cup {[kind |-> "file", content |-> c] :
            c \in {"", "tok"} \cup {Rep(" ", n) : n \in 1..MaxPad}
                  \cup {Rep(" ", n) \o "tok" \o "\n" : n \in 0..MaxPad}}

VcUrls == {"http://localhost:5062", "http://localhost:5062/"}

\* the setter's state before main() runs
SetterStart ==
    /\ pc = "validate_pubkey"
    /\ pubkey = None /\ addr = None /\ token = None
    /\ sent = <<>> /\ response = NoResponse /\ trace = <<>>
    /\ sOut = <<>> /\ sErr = <<>> /\ sExit = -1 /\ sRaised = ""

-----------------------------------------------------------------------------
(* gen_external_config.py *)

Release == "node"
Namespace == "eth"

(* JSON values as json.loads returns them: [t |-> type, v |-> payload].
   The text a command prints is represented by what json.loads makes of it:
   a value, or NotJson when it raises JSONDecodeError (the empty output of
   a failed command included). *)
NotJson == [t |-> "notjson"]
JNull == [t |-> "null"]
JInt(n) == [t |-> "int", v |-> n]
JStr(x) == [t |-> "str", v |-> x]
JDict(f) == [t |-> "dict", v |-> f]
EmptyDict == JDict(<< >>)
\* the outcome of an expression that raised
Raised == [t |-> "raise"]

\* d.get(k, dflt): AttributeError when d is not a dict
PyGet(d, k, dflt) ==
    IF d.t = "raise" THEN Raised
    ELSE IF d.t # "dict" THEN Raised
    ELSE IF k \in DOMAIN d.v THEN d.v[k]
    ELSE dflt

\* truthiness of a value
Truthy(x) ==
    IF x.t = "null" THEN FALSE
    ELSE IF x.t = "str" THEN x.v # ""
    ELSE IF x.t = "int" THEN x.v # 0
    ELSE IF x.t = "dict" THEN DOMAIN x.v # {}
    ELSE TRUE

\* str(x) as an f-string formats it
PyStr(x) ==
    IF x.t = "int" THEN ToString(x.v)
    ELSE IF x.t = "str" THEN x.v
    ELSE IF x.t = "null" THEN "None"
    ELSE "{...}"

\* run_command(cmd, check) on a command that exits rc: subprocess.run raises
\* CalledProcessError only when check is set, so with check=False the call
\* reports success whatever the exit status.
run_command(rc, check) == ~(check /\ rc # 0)

\* check_helm_release
check_helm_release(release_name, cmd) ==
    IF ~run_command(cmd.rc, FALSE) THEN FALSE
    ELSE IF ~cmd.parsed THEN FALSE
    ELSE \E i \in 1..Len(cmd.names) : cmd.names[i] = release_name

\* get_helm_values
get_helm_values(cmd) ==
    IF ~run_command(cmd.rc, FALSE) THEN EmptyDict
    ELSE IF cmd.out.t = "notjson" THEN EmptyDict
    ELSE cmd.out

\* check_secret_exists
check_secret_exists(cmd) == run_command(cmd.rc, FALSE)

\* the loop body of find_services_by_release for one role, keeping the first
\* match instead of the last (a mutation of the code)
SelectFirst(cur, svc, marker) ==
    IF cur = None /\ svc.type = "ClusterIP" /\ Contains(svc.name, marker)
       /\ ~Contains(svc.name, "public")
    THEN svc.name
    ELSE cur

\* the loop body of find_services_by_release for one role: cur is the role's
\* variable (geth_svc / beacon_svc), svc the service visited
Select(cur, svc, marker) ==
    IF svc.type = "ClusterIP" /\ Contains(svc.name, marker)
       /\ ~Contains(svc.name, "public")
    THEN svc.name
    ELSE cur

RECURSIVE ScanServices(_, _, _)
ScanServices(items, i, found) ==
    IF i > Len(items) THEN found
    ELSE ScanServices(items, i + 1,
            [geth   |-> Select(found.geth, items[i], "geth"),
             beacon |-> Select(found.beacon, items[i], "lighthouse-beacon")])

NoServices == [geth |-> None, beacon |-> None]

\* find_services_by_release
find_services_by_release(cmd) ==
    IF ~run_command(cmd.rc, FALSE) THEN NoServices
    ELSE IF ~cmd.parsed THEN NoServices
    ELSE ScanServices(cmd.items, 1, NoServices)

\* detect_jwt_secret: the name, None, or Raised
detect_jwt_secret(release_name, vals, cmd) ==
    LET ext == PyGet(vals, "externalNode", EmptyDict)
        jwt_from_values == PyGet(ext, "jwtSecretName", JNull)
    IN  IF jwt_from_values.t = "raise" THEN Raised
        ELSE IF Truthy(jwt_from_values) THEN jwt_from_values
        ELSE IF check_secret_exists(cmd)
        THEN JStr(release_name \o "-eth-validator-auth-jwt")
        ELSE JNull

\* exec_port / beacon_port of generate_config
ExecPort(vals) ==
    PyGet(PyGet(PyGet(PyGet(vals, "geth", EmptyDict), "internal", EmptyDict),
                "auth", EmptyDict), "port", JInt(DEFAULT_EXEC_PORT))
BeaconPort(vals) ==
    PyGet(PyGet(PyGet(PyGet(vals, "lighthouseBeacon", EmptyDict), "internal", EmptyDict),
                "api", EmptyDict), "port", JInt(DEFAULT_BEACON_PORT))

\* the endpoint of a role
Endpoint(svc, port) ==
    IF svc # None THEN "http://" \o svc \o ":" \o PyStr(port) ELSE ""

\* the dictionary generate_config returns
BuildResult(release_name, namespace, svcs, prts, jwt) ==
    [config |->
        [externalNode |->
            [enabled |-> TRUE,
             executionEndpoint |-> Endpoint(svcs.geth, prts.exec),
             beaconEndpoint |-> Endpoint(svcs.beacon, prts.beacon),
             jwtSecretName |-> IF Truthy(jwt) THEN PyStr(jwt)
                               ELSE "REPLACE_WITH_JWT_SECRET_NAME"],
         geth |-> [enabled |-> FALSE],
         lighthouseBeacon |-> [enabled |-> FALSE]],
     metadata |->
        [release_name |-> release_name,
         namespace |-> namespace,
         geth_service |-> IF svcs.geth # None THEN svcs.geth ELSE "(NOT FOUND)",
         beacon_service |-> IF svcs.beacon # None THEN svcs.beacon ELSE "(NOT FOUND)",
         exec_endpoint |-> Endpoint(svcs.geth, prts.exec),
         beacon_endpoint |-> Endpoint(svcs.beacon, prts.beacon),
         geth_exists |-> svcs.geth # None,
         beacon_exists |-> svcs.beacon # None,
         jwt_secret |-> IF jwt.t = "null" THEN None ELSE PyStr(jwt)]]

\* format_yaml_config: the document, one field per line of the template
\* (the template's literal lines are literal here; the timestamp is left out)
format_yaml_config(config, metadata) ==
    [kind |-> "yaml",
     header |-> [release |-> metadata.release_name,
                 namespace |-> metadata.namespace,
                 geth |-> metadata.geth_service,
                 beacon |-> metadata.beacon_service],
     externalNode_enabled |-> TRUE,
     executionEndpoint |-> metadata.exec_endpoint,
     beaconEndpoint |-> metadata.beacon_endpoint,
     jwtSecretName |-> config.externalNode.jwtSecretName,
     jwt_warning |-> metadata.jwt_secret = None,
     geth_enabled |-> FALSE,
     lighthouseBeacon_enabled |-> FALSE]

\* a print(..., file=sys.stderr): one diagnostic line
Diag(text) == [kind |-> "diagnostic", text |-> text]

\* the fatal exits of generate_config, printing to stdout (a mutation)
GenFatalOnStdout(before, lines) ==
    /\ gErr' = gErr \o before
    /\ gOut' = gOut \o lines
    /\ gExit' = 1
    /\ gpc' = "done"

\* the fatal exits of generate_config: print(..., file=sys.stderr) for each
\* of lines, then sys.exit(1); before is what the step wrote to stderr
\* ahead of them
GenFatal(before, lines) ==
    /\ gErr' = gErr \o before \o lines
    /\ gOut' = gOut
    /\ gExit' = 1
    /\ gpc' = "done"

\* an exception nothing catches: traceback on stderr, exit status 1
GenRaise(exc) ==
    /\ gRaised' = exc
    /\ gErr' = Append(gErr, Diag("Traceback: " \o exc))
    /\ gExit' = 1
    /\ gpc' = "done"
    /\ UNCHANGED gOut

\* generate_config: `if not check_helm_release(...)`
CheckRelease ==
    /\ gpc = "check_release"
    /\ IF check_helm_release(Release, helmList)
       THEN /\ gpc' = "fetch_values"
            /\ UNCHANGED <<gOut, gErr, gExit>>
       ELSE GenFatal(<< >>, <<Diag("Error: Helm release not found in namespace")>>)
    /\ UNCHANGED <<quiet, helmList, helmValues, svcList, secretCmd, values, ports,
                   services, result, gRaised, setterVars>>

\* generate_config: values = get_helm_values(...), exec_port, beacon_port
FetchValues ==
    /\ gpc = "fetch_values"
    /\ LET vals == get_helm_values(helmValues)
           ep == ExecPort(vals)
           bp == BeaconPort(vals)
       IN  /\ values' = vals
           /\ IF ep.t = "raise" \/ bp.t = "raise"
              THEN /\ GenRaise("AttributeError")
                   /\ UNCHANGED ports
              ELSE /\ ports' = [exec |-> ep, beacon |-> bp]
                   /\ gpc' = "find_services"
                   /\ UNCHANGED <<gOut, gErr, gExit, gRaised>>
    /\ UNCHANGED <<quiet, helmList, helmValues, svcList, secretCmd, services,
                   result, setterVars>>

\* generate_config: the "Searching for services" line, find_services_by_release
\* and the check that at least one service was found
FindServices ==
    /\ gpc = "find_services"
    /\ LET found == find_services_by_release(svcList)
           searching == <<Diag("Searching for services with label")>>
       IN  /\ services' = found
           /\ IF found.geth = None /\ found.beacon = None
              THEN GenFatal(searching,
                     <<Diag("Error: Could not find Geth or Beacon services"),
                       Diag("Searched for services with label"),
                       Diag("Is this a node deployment with geth and lighthouseBeacon enabled?")>>)
              ELSE /\ gErr' = gErr \o searching
                   /\ gpc' = "detect_jwt"
                   /\ UNCHANGED <<gOut, gExit>>
    /\ UNCHANGED <<quiet, helmList, helmValues, svcList, secretCmd, values, ports,
                   result, gRaised, setterVars>>

\* generate_config: jwt_secret = detect_jwt_secret(...), the endpoints and the
\* returned dictionary
DetectJwt ==
    /\ gpc = "detect_jwt"
    /\ LET jwt == detect_jwt_secret(Release, values, secretCmd)
       IN  IF jwt.t = "raise"
           THEN /\ GenRaise("AttributeError")
                /\ UNCHANGED result
           ELSE /\ result' = BuildResult(Release, Namespace, services, ports, jwt)
                /\ gpc' = "summary"
                /\ UNCHANGED <<gOut, gErr, gExit, gRaised>>
    /\ UNCHANGED <<quiet, helmList, helmValues, svcList, secretCmd, values, ports,
                   services, setterVars>>

\* print_summary: its lines, all to stderr
print_summary(metadata) ==
    <<Diag("External Node Configuration Generator"),
      Diag("Node Release: " \o metadata.release_name),
      Diag("Namespace: " \o metadata.namespace),
      Diag(IF metadata.geth_exists THEN "Geth: " \o metadata.geth_service
           ELSE "Geth: NOT FOUND"),
      Diag(IF metadata.beacon_exists THEN "Beacon: " \o metadata.beacon_service
           ELSE "Beacon: NOT FOUND"),
      Diag(IF metadata.jwt_secret # None THEN "JWT Secret: " \o metadata.jwt_secret
           ELSE "JWT Secret: NOT DETECTED - manual input required")>>

\* main: `if not args.quiet: print_summary(result['metadata'])`
Summary ==
    /\ gpc = "summary"
    /\ gErr' = IF ~quiet THEN gErr \o print_summary(result.metadata) ELSE gErr
    /\ gpc' = "emit_yaml"
    /\ UNCHANGED <<quiet, helmList, helmValues, svcList, secretCmd, values, ports,
                   services, result, gOut, gExit, gRaised, setterVars>>

\* main: print(format_yaml_config(...))
EmitYaml ==
    /\ gpc = "emit_yaml"
    /\ gOut' = Append(gOut, format_yaml_config(result.config, result.metadata))
    /\ gpc' = "usage"
    /\ UNCHANGED <<quiet, helmList, helmValues, svcList, secretCmd, values, ports,
                   services, result, gErr, gExit, gRaised, setterVars>>

\* main: the usage instructions (unless quiet), then main returns
Usage ==
    /\ gpc = "usage"
    /\ gErr' = IF quiet THEN gErr
               ELSE gErr \o <<Diag("Usage:"), Diag("  # Save to file:"),
                              Diag("  # Apply with helm upgrade:")>>
                         \o (IF result.metadata.jwt_secret = None
                             THEN <<Diag("WARNING: JWT secret name could not be determined")>>
                             ELSE << >>)
    /\ gExit' = 0
    /\ gpc' = "done"
    /\ UNCHANGED <<quiet, helmList, helmValues, svcList, secretCmd, values, ports,
                   services, result, gOut, gRaised, setterVars>>

NextGen ==
    \/ CheckRelease
    \/ FetchValues
    \/ FindServices
    \/ DetectJwt
    \/ Summary
    \/ EmitYaml
    \/ Usage

-----------------------------------------------------------------------------
(* The cluster the generator runs against *)

\* outcomes of `helm list`: a failed command, or a listing of release names
HelmListOutcomes ==
    {[rc |-> 1, parsed |-> FALSE, names |-> << >>]}
    \cup {[rc |-> 0, parsed |-> TRUE, names |-> n] :
            n \in {<< >>, <<"other">>, <<"other", Release>>}}

\* the recorded values of the release, by shape
GethValues(g) ==
    IF g = "null" THEN JNull
    ELSE IF g = "noport" THEN JDict([internal |-> JDict([auth |-> EmptyDict])])
    ELSE JDict([internal |-> JDict([auth |-> JDict([port |-> JInt(9551)])])])
BeaconValues ==
    JDict([internal |-> JDict([api |-> JDict([port |-> JInt(6052)])])])
ExternalValues(e) ==
    IF e = "null" THEN JNull
    ELSE IF e = "empty" THEN JDict([jwtSecretName |-> JStr("")])
    ELSE JDict([jwtSecretName |-> JStr("custom-jwt")])

ValuesDict(g, b, e) ==
    JDict((IF g = "absent" THEN << >> ELSE "geth" :> GethValues(g))
          @@ (IF b = "absent" THEN << >> ELSE "lighthouseBeacon" :> BeaconValues)
          @@ (IF e = "absent" THEN << >> ELSE "externalNode" :> ExternalValues(e)))

\* outcomes of `helm get values`: a failed command (no output), output that
\* is not JSON, the document `null`, or a dictionary
HelmValuesOutcome(top, g, b, e) ==
    IF top = "fail" THEN [rc |-> 1, out |-> NotJson]
    ELSE IF top = "notjson" THEN [rc |-> 0, out |-> NotJson]
    ELSE IF top = "null" THEN [rc |-> 0, out |-> JNull]
    ELSE [rc |-> 0, out |-> ValuesDict(g, b, e)]

ValuesShapes ==
    {<<top, "absent", "absent", "absent">> : top \in {"fail", "notjson", "null"}}
    \cup ({"dict"} \X {"absent", "null", "noport", "port"} \X {"absent", "port"}
          \X {"absent", "null", "empty", "name"})

\* the services that may carry the release's label
ServiceCatalog ==
    {[name |-> "node-geth", type |-> "ClusterIP"],
     [name |-> "node-geth-public", type |-> "ClusterIP"],
     [name |-> "node-geth-archive", type |-> "ClusterIP"],
     [name |-> "node-geth-lb", type |-> "LoadBalancer"],
     [name |-> "node-lighthouse-beacon", type |-> "ClusterIP"],
     [name |-> "node-lighthouse-beacon-public", type |-> "LoadBalancer"]}

\* listings of up to MaxSvcs distinct services, in any order
Listings ==
    UNION {{q \in [1..n -> ServiceCatalog] :
              \A i, j \in 1..n : i # j => q[i] # q[j]} : n \in 0..MaxSvcs}

SvcListOutcomes ==
    {[rc |-> 1, parsed |-> FALSE, items |-> << >>]}
    \cup {[rc |-> 0, parsed |-> TRUE, items |-> q] : q \in Listings}

\* the generator's state before main() runs
GenStart ==
    /\ gpc = "check_release"
    /\ values = EmptyDict
    /\ ports = [exec |-> JNull, beacon |-> JNull]
    /\ services = NoServices
    /\ result = [config |-> << >>, metadata |-> << >>]
    /\ gOut = << >> /\ gErr = << >> /\ gExit = -1 /\ gRaised = ""

\* the generator not run
GenIdle ==
    /\ GenStart
    /\ quiet = FALSE
    /\ helmList = [rc |-> 1, parsed |-> FALSE, names |-> << >>]
    /\ helmValues = [rc |-> 1, out |-> NotJson]
    /\ svcList = [rc |-> 1, parsed |-> FALSE, items |-> << >>]
    /\ secretCmd = [rc |-> 1]

\* the setter not run
SetterIdle ==
    /\ SetterStart
    /\ argPubkey = GoodPubkey /\ argAddr = GoodAddr
    /\ argVcUrl = "http://localhost:5062"
    /\ tokenFile = GoodTokenFile

-----------------------------------------------------------------------------
(* Specifications *)

\* the setter on a few inputs of every kind, every credential file and URL
InitSetter ==
    /\ SetterStart /\ GenIdle
    /\ argPubkey \in {GoodPubkey, Rep("a", PUBKEY_LEN - 2), Rep("a", PUBKEY_LEN - 3),
                      "0x" \o Rep("g", PUBKEY_LEN - 2)}
                     \cup {Rep(" ", n) \o GoodPubkey : n \in 1..MaxPad}
    /\ argAddr \in {GoodAddr, Rep("a", ADDR_LEN - 2), "0x" \o Rep("g", ADDR_LEN - 2)}
                   \cup {GoodAddr \o Rep(" ", n) : n \in 1..MaxPad}
    /\ argVcUrl \in VcUrls
    /\ tokenFile \in TokenFiles

SpecSetter == InitSetter /\ [][NextSetter]_vars

\* the setter on every pubkey of the input family
InitPubkey ==
    /\ SetterStart /\ GenIdle
    /\ argPubkey \in Inputs(PUBKEY_LEN)
    /\ argAddr = GoodAddr
    /\ argVcUrl = "http://localhost:5062"
    /\ tokenFile = GoodTokenFile

SpecPubkey == InitPubkey /\ [][NextSetter]_vars

\* the setter on every address of the input family
InitAddress ==
    /\ SetterStart /\ GenIdle
    /\ argPubkey = GoodPubkey
    /\ argAddr \in Inputs(ADDR_LEN)
    /\ argVcUrl = "http://localhost:5062"
    /\ tokenFile = GoodTokenFile

SpecAddress == InitAddress /\ [][NextSetter]_vars

\* the generator against every cluster of the bounds
InitGen ==
    /\ GenStart /\ SetterIdle
    /\ quiet \in BOOLEAN
    /\ helmList \in HelmListOutcomes
    /\ \E sh \in ValuesShapes :
          helmValues = HelmValuesOutcome(sh[1], sh[2], sh[3], sh[4])
    /\ svcList \in SvcListOutcomes
    /\ secretCmd \in {[rc |-> 0], [rc |-> 1]}

SpecGen == InitGen /\ [][NextGen]_vars

-----------------------------------------------------------------------------
(* Properties of the fee-recipient setter *)

StepOrder == <<"validate_pubkey", "validate_address", "read_token", "post", "interpret">>

IsPrefixOf(a, b) == Len(a) <= Len(b) /\ SubSeq(b, 1, Len(a)) = a

AllHex(s) == \A i \in 1..Len(s) : Char(s, i) \in HexDigits

SetterDone == pc = "done"

\* C1: the exit status is 0 if and only if a response with status 202 was
\* received; in every other case (any other status, a timeout, another
\* transport exception, a failed validation) it is 1, and no transport
\* exception escapes main().
C1_ExitZeroIffStatus202 ==
    SetterDone =>
        /\ sExit \in {0, 1}
        /\ sExit = 0 <=> (response.kind = "response" /\ response.status = 202)
        /\ sRaised \notin {"Timeout", "RequestException"}
        /\ (response.kind \in {"Timeout", "RequestException"} =>
                sExit = 1 /\ sRaised = "" /\ sErr # << >>)

\* a run that received 202 and exited 0
C1_Witness ==
    /\ SetterDone
    /\ response.kind = "response" /\ response.status = 202
    /\ sExit = 0

\* C2: at most one HTTP request per run; none when pubkey validation,
\* address validation or credential loading fails; the steps run in the
\* order validate pubkey, validate address, load credential, issue request;
\* the first failing step ends the run, and a failed request is not retried.
C2_AtMostOneRequestInOrder ==
    /\ Len(sent) <= 1
    /\ IsPrefixOf(trace, StepOrder)
    /\ Len(sent) = (IF Len(trace) >= 4 THEN 1 ELSE 0)
    /\ (sExit # -1 => SetterDone)
    /\ (SetterDone /\ (\/ ~validate_pubkey(argPubkey).ok
                       \/ ~validate_eth_address(argAddr).ok
                       \/ read_token(tokenFile).outcome # "ok")
            => sent = << >>)
    /\ (SetterDone /\ response.kind \in {"Timeout", "RequestException"}
            => Len(sent) = 1 /\ trace = SubSeq(StepOrder, 1, 4))

\* a run whose only request timed out
C2_Witness ==
    /\ SetterDone
    /\ response.kind = "Timeout"
    /\ Len(sent) = 1
    /\ sExit = 1

\* validate_pubkey has run on args.pubkey
PubkeyValidated == Len(trace) >= 1
PubkeyAccepted == pubkey # None
PubkeyRejected == SetterDone /\ sExit = 1 /\ trace = <<"validate_pubkey">>

\* args.pubkey after the prefix handling (of the stripped argument: the
\* whitespace around the argument is not held against the claim)
PubkeyForm ==
    LET s == Strip(argPubkey)
    IN  IF StartsWith(s, "0x") THEN s ELSE "0x" \o s

\* C3: validate_pubkey accepts '0x' + 96 hex characters and returns it
\* unchanged, accepts 96 hex characters and returns them with '0x'
\* prepended, and rejects every input whose form after prefix handling is
\* not exactly 98 characters or whose 96 characters after the prefix hold a
\* character that is not a hex digit.
C3_PubkeyValidation ==
    LET prefixed == /\ Len(argPubkey) = PUBKEY_LEN
                    /\ StartsWith(argPubkey, "0x")
                    /\ AllHex(SubSeq(argPubkey, 3, PUBKEY_LEN))
        bare == Len(argPubkey) = PUBKEY_LEN - 2 /\ AllHex(argPubkey)
        malformed == \/ Len(PubkeyForm) # PUBKEY_LEN
                     \/ ~AllHex(SubSeq(PubkeyForm, 3, Len(PubkeyForm)))
    IN  PubkeyValidated =>
            /\ (prefixed => (PubkeyAccepted /\ pubkey = argPubkey))
            /\ (bare => (PubkeyAccepted /\ pubkey = "0x" \o argPubkey))
            /\ (malformed => PubkeyRejected)

\* validate_eth_address has run on args.fee_recipient
AddressValidated == Len(trace) >= 2
AddressAccepted == addr # None
AddressRejected ==
    SetterDone /\ sExit = 1 /\ trace = <<"validate_pubkey", "validate_address">>

\* C4: validate_eth_address accepts exactly the strings that are '0x'
\* followed by 40 hex characters and returns the address; any other
\* length, a missing prefix or a non-hex character among the 40 is
\* rejected. (As for C3, of the stripped argument.)
C4_AddressValidation ==
    AddressValidated =>
        LET a == Strip(argAddr)
            wellFormed == /\ Len(a) = ADDR_LEN /\ StartsWith(a, "0x")
                          /\ AllHex(SubSeq(a, 3, Len(a)))
        IN  /\ (wellFormed => (AddressAccepted /\ addr = a))
            /\ (~wellFormed => AddressRejected)

-----------------------------------------------------------------------------
(* Properties of the config generator *)

GenDone == gpc = "done"

\* FetchValues has run and the run went on
ValuesFetched == gpc \in {"find_services", "detect_jwt", "summary", "emit_yaml", "usage"}
                 \/ (GenDone /\ gExit = 0)
                 \/ (GenDone /\ gErr # << >>
                        /\ gErr[1].text = "Searching for services with label")

\* FindServices has run
ServicesSearched == gErr # << >> /\ gErr[1].text = "Searching for services with label"

\* the run ended in FetchValues, by an exception
EndedInFetchValues ==
    GenDone /\ gRaised # "" /\ Len(gErr) = 1

\* C5: stdout is all-or-nothing: a run that ends with status 1 has written
\* nothing to stdout, a run that exits 0 has written exactly one complete
\* document, and at no point does stdout hold anything but that document.
C5_StdoutAllOrNothing ==
    /\ Len(gOut) <= 1
    /\ \A i \in 1..Len(gOut) :
          /\ gOut[i].kind = "yaml"
          /\ gOut[i] = format_yaml_config(result.config, result.metadata)
    /\ (gExit = 1 => gOut = << >>)
    /\ (gExit = 0 => Len(gOut) = 1)
    /\ (GenDone => gExit \in {0, 1})

\* a run that ended fatally because no service was found
C5_Witness ==
    /\ GenDone /\ gExit = 1 /\ gRaised = ""
    /\ ServicesSearched
    /\ services = NoServices
    /\ gOut = << >>

\* the secret name the fetched configuration gives, JNull if none
ConfiguredSecret ==
    IF values.t = "dict" /\ "externalNode" \in DOMAIN values.v
    THEN IF values.v["externalNode"].t = "dict"
            /\ "jwtSecretName" \in DOMAIN values.v["externalNode"].v
         THEN values.v["externalNode"].v["jwtSecretName"]
         ELSE JNull
    ELSE JNull

\* C6: the emitted secret reference is the value of the fetched
\* configuration when present, otherwise the fixed-pattern name when the
\* get-secret query reports the secret exists, and otherwise (the query
\* exits non-zero) the placeholder REPLACE_WITH_JWT_SECRET_NAME with the
\* warning annotation.
C6_SecretResolution ==
    (GenDone /\ gExit = 0) =>
        LET doc == gOut[1]
        IN  IF Truthy(ConfiguredSecret)
            THEN doc.jwtSecretName = ConfiguredSecret.v /\ ~doc.jwt_warning
            ELSE IF secretCmd.rc = 0
            THEN /\ doc.jwtSecretName = Release \o "-eth-validator-auth-jwt"
                 /\ ~doc.jwt_warning
            ELSE /\ doc.jwtSecretName = "REPLACE_WITH_JWT_SECRET_NAME"
                 /\ doc.jwt_warning

Markers == [geth |-> "geth", beacon |-> "lighthouse-beacon"]

MinOf(S) == CHOOSE x \in S : \A y \in S : x <= y
MaxOf(S) == CHOOSE x \in S : \A y \in S : x >= y

\* the first service of the listing whose name has the marker and not 'public'
FirstNamed(items, marker) ==
    LET idx == {i \in 1..Len(items) :
                    Contains(items[i].name, marker) /\ ~Contains(items[i].name, "public")}
    IN  IF idx = {} THEN None ELSE items[MinOf(idx)].name

\* the last ClusterIP service of the listing whose name has the marker and
\* not 'public'
LastInternal(items, marker) ==
    LET idx == {i \in 1..Len(items) :
                    /\ items[i].type = "ClusterIP"
                    /\ Contains(items[i].name, marker)
                    /\ ~Contains(items[i].name, "public")}
    IN  IF idx = {} THEN None ELSE items[MaxOf(idx)].name

\* C7 as claimed: the service chosen for a role is the first one in listing
\* order whose name contains the role marker and does not contain 'public'.
C7_FirstMatchChosen ==
    ServicesSearched =>
        \A role \in {"geth", "beacon"} :
            services[role] = FirstNamed(svcList.items, Markers[role])

\* C7, amended: the service chosen for a role is the last one in listing
\* order that is of type ClusterIP and whose name contains the role marker
\* ('geth', 'lighthouse-beacon') and does not contain 'public', none when
\* there is no such service; so a service named 'public' is never chosen,
\* and the emitted endpoint is that of the chosen internal service.
C7_LastInternalChosen ==
    /\ ServicesSearched =>
          \A role \in {"geth", "beacon"} :
              /\ services[role] = LastInternal(svcList.items, Markers[role])
              /\ (services[role] # None => ~Contains(services[role], "public"))
    /\ (GenDone /\ gExit = 0) =>
          /\ gOut[1].executionEndpoint =
                Endpoint(LastInternal(svcList.items, "geth"), ports.exec)
          /\ gOut[1].beaconEndpoint =
                Endpoint(LastInternal(svcList.items, "lighthouse-beacon"), ports.beacon)

\* a listing of two internal geth services, the second of which was chosen,
\* in a run that emitted its endpoint
C7_Witness ==
    /\ GenDone /\ gExit = 0
    /\ Len(svcList.items) = 2
    /\ svcList.items[1].name = "node-geth"
    /\ svcList.items[2].name = "node-geth-archive"
    /\ services.geth = "node-geth-archive"
    /\ gOut[1].executionEndpoint = "http://node-geth-archive:8551"

\* the port the output of `helm get values` gives along a path of keys, dflt
\* when the output is no document or the document does not hold the path
RECURSIVE AtPath(_, _, _)
AtPath(doc, path, dflt) ==
    IF path = << >> THEN doc
    ELSE IF doc.t = "dict" /\ Head(path) \in DOMAIN doc.v
    THEN AtPath(doc.v[Head(path)], Tail(path), dflt)
    ELSE dflt

\* C8: the values fetch is best-effort: whatever the release-values query
\* gives (a failed command, output that does not parse, a JSON document
\* without the port settings) the run is not ended by it and uses 8551 and
\* 5052; a port the fetched configuration holds is used instead.
C8_ValuesFetchBestEffort ==
    /\ ~EndedInFetchValues
    /\ ValuesFetched =>
          /\ ports.exec = AtPath(helmValues.out, <<"geth", "internal", "auth", "port">>,
                                 JInt(DEFAULT_EXEC_PORT))
          /\ ports.beacon = AtPath(helmValues.out,
                                   <<"lighthouseBeacon", "internal", "api", "port">>,
                                   JInt(DEFAULT_BEACON_PORT))

\* C9: the run fails for missing services only when neither role's service
\* is found; when the release exists and a service of at least one role is
\* found, the run exits 0 and the document has, per role, the endpoint
\* http://<service-name>:<port> if the service was found and "" if not,
\* with the enablement flag true and both local-component flags false.
C9_EndpointsPerRole ==
    GenDone =>
        LET found == find_services_by_release(svcList)
        IN  /\ (gExit = 1 /\ gRaised = "" /\ ServicesSearched
                    => found = NoServices)
            /\ (check_helm_release(Release, helmList) /\ found # NoServices) =>
                  /\ gExit = 0
                  /\ Len(gOut) = 1
                  /\ gOut[1].executionEndpoint =
                        (IF found.geth # None
                         THEN "http://" \o found.geth \o ":" \o PyStr(ports.exec)
                         ELSE "")
                  /\ gOut[1].beaconEndpoint =
                        (IF found.beacon # None
                         THEN "http://" \o found.beacon \o ":" \o PyStr(ports.beacon)
                         ELSE "")
                  /\ gOut[1].externalNode_enabled
                  /\ ~gOut[1].geth_enabled
                  /\ ~gOut[1].lighthouseBeacon_enabled

\* C10: in a successful run with --quiet nothing is written to stderr at
\* any point, and stdout holds only the document.
C10_QuietWritesNoDiagnostics ==
    quiet /\ ~(GenDone /\ gExit = 1) =>
        /\ gErr = << >>
        /\ \A i \in 1..Len(gOut) : gOut[i].kind = "yaml"

====
